---- MODULE Spec2Model ----
(***************************************************************************)
(* A model of set_window_title.py, the Sublime Text plugin that renames    *)
(* the editor's OS window after the active view.                           *)
(*                                                                         *)
(* Text.  A Python str is a sequence of characters, each character a       *)
(* one-character TLA+ string; a character outside ASCII is written by its  *)
(* code point ("U+2022").  Python's None is the value None below, which no *)
(* str equals.                                                             *)
(***************************************************************************)
EXTENDS Integers, Sequences, FiniteSets, TLC

VARIABLES
  PLATFORM,             \* sublime.platform(), fixed when the module is loaded
  settings,             \* set_window_title.sublime-settings
  environ,              \* os.environ["HOME"] and os.getcwd()
  pc,                   \* position of the on_sublime_started task
  window_index,         \* its place in sublime.windows(), line 90
  packages_path,        \* on_sublime_started's local packages_path
  script_path,          \* SetWindowTitle.script_path
  ready,                \* SetWindowTitle.ready
  window_handle_cache,  \* SetWindowTitle.window_handle_cache
  dirty,                \* view.is_dirty(), per view
  was_dirty,            \* view.settings()[WAS_DIRTY], per view; {} when unset
  titles,               \* the text of each top-level OS window, in UTF-16 units
  matched,              \* history: window ids for which a rename found a window
  nEvents,              \* history: activate/modify/post-save events dispatched
  nLogs,                \* history: "skipping" lines printed
  nRenames,             \* history: rename_window invocations
  last,                 \* history: what the last handler did
  pd_in,                \* inputs of _get_displayed_path (path specification)
  pd_out                \* its results, per path_display mode

mainVars == <<PLATFORM, settings, environ, pc, window_index, packages_path, script_path, ready,
              window_handle_cache, dirty, was_dirty, titles, matched,
              nEvents, nLogs, nRenames, last>>
pathVars == <<pd_in, pd_out>>
vars == <<mainVars, pathVars>>

None == <<"None">>

Truthy(x) == x # None /\ x # <<>>

\* str(x), as "%s" and str.format apply it to an argument
Str(x) == IF x = None THEN <<"N", "o", "n", "e">> ELSE x

(***************************************************************************)
(* Strings                                                                 *)
(***************************************************************************)
Slice(s, i, j) == IF i > j THEN <<>> ELSE SubSeq(s, i, j)

From(s, i) == Slice(s, i, Len(s))

StartsWith(s, p) == Len(p) <= Len(s) /\ Slice(s, 1, Len(p)) = p

\* s.find(sub, i): the first index >= i where sub occurs, 0 when there is none
Find(s, sub, i) ==
  LET at == {k \in i..(Len(s) - Len(sub) + 1) : Slice(s, k, k + Len(sub) - 1) = sub}
  IN  IF at = {} THEN 0 ELSE CHOOSE k \in at : \A m \in at : k <= m

\* sub in s
Contains(s, sub) == Find(s, sub, 1) # 0

\* s.rfind(c) for a set of characters: the last index of one of them, 0 when none
RFind(s, cs) ==
  LET at == {k \in 1..Len(s) : s[k] \in cs}
  IN  IF at = {} THEN 0 ELSE CHOOSE k \in at : \A m \in at : m <= k

RECURSIVE Replace(_, _, _)
\* s.replace(old, new), old not empty: every occurrence, left to right
Replace(s, old, new) ==
  LET k == Find(s, old, 1)
  IN  IF k = 0 THEN s
      ELSE Slice(s, 1, k - 1) \o new \o Replace(From(s, k + Len(old)), old, new)

RECURSIVE Split(_, _)
\* s.split(sep) for a one-character sep
Split(s, sep) ==
  LET k == Find(s, <<sep>>, 1)
  IN  IF k = 0 THEN <<s>> ELSE <<Slice(s, 1, k - 1)>> \o Split(From(s, k + 1), sep)

RECURSIVE Join(_, _)
\* sep.join(parts)
Join(parts, sep) ==
  IF parts = <<>> THEN <<>>
  ELSE IF Len(parts) = 1 THEN parts[1]
  ELSE parts[1] \o <<sep>> \o Join(Tail(parts), sep)

(***************************************************************************)
(* os.path: posixpath on linux and osx, ntpath on windows.  The paths of   *)
(* the model are lower case, so ntpath's normcase changes nothing.         *)
(***************************************************************************)
Sep(plat) == IF plat = "windows" THEN "\\" ELSE "/"

Seps(plat) == IF plat = "windows" THEN {"\\", "/"} ELSE {"/"}

\* os.path.splitdrive(p)[0]: a drive letter and its colon on windows, '' elsewhere
SplitDrive(plat, p) ==
  IF plat = "windows" /\ Len(p) >= 2 /\ p[2] = ":" THEN Slice(p, 1, 2) ELSE <<>>

DriveRest(plat, p) == From(p, Len(SplitDrive(plat, p)) + 1)

\* os.path.basename(p)
Basename(plat, p) ==
  LET rest == DriveRest(plat, p) IN From(rest, RFind(rest, Seps(plat)) + 1)

\* os.path.splitext(p)[0]: the extension starts at the last dot that follows a
\* character of the file name other than a dot
SplitextRoot(plat, p) ==
  LET sepIndex == RFind(p, Seps(plat))
      dotIndex == RFind(p, {"."})
  IN  IF dotIndex > sepIndex /\ \E k \in (sepIndex + 1)..(dotIndex - 1) : p[k] # "."
      THEN Slice(p, 1, dotIndex - 1)
      ELSE p

RECURSIVE NormComps(_, _)
\* os.path.normpath on the components of a path: '' and '.' go, '..' pops
NormComps(done, todo) ==
  IF todo = <<>> THEN done
  ELSE LET c == Head(todo) IN
       IF c = <<>> \/ c = <<".">> THEN NormComps(done, Tail(todo))
       ELSE IF c = <<".", ".">> /\ done # <<>> /\ done[Len(done)] # <<".", ".">>
       THEN NormComps(Slice(done, 1, Len(done) - 1), Tail(todo))
       ELSE IF c = <<".", ".">> THEN NormComps(done, Tail(todo))
       ELSE NormComps(Append(done, c), Tail(todo))

IsAbs(plat, p) ==
  LET rest == DriveRest(plat, p) IN rest # <<>> /\ rest[1] \in Seps(plat)

\* os.path.abspath(p): its drive and its components below the root; a relative
\* path is joined to os.getcwd()
AbsPath(plat, p, cwd) ==
  LET own == Split(DriveRest(plat, p), Sep(plat))
  IN  IF IsAbs(plat, p)
      THEN [drive |-> SplitDrive(plat, p), comps |-> NormComps(<<>>, own)]
      ELSE [drive |-> SplitDrive(plat, cwd),
            comps |-> NormComps(<<>>, Split(DriveRest(plat, cwd), Sep(plat)) \o own)]

RECURSIVE CommonLen(_, _)
CommonLen(a, b) ==
  IF a = <<>> \/ b = <<>> \/ Head(a) # Head(b) THEN 0
  ELSE 1 + CommonLen(Tail(a), Tail(b))

\* os.path.relpath(path, start), the two on one drive
RelPath(plat, path, start, cwd) ==
  LET start_list == AbsPath(plat, start, cwd).comps
      path_list  == AbsPath(plat, path, cwd).comps
      i          == CommonLen(start_list, path_list)
      rel_list   == [k \in 1..(Len(start_list) - i) |-> <<".", ".">>]
                      \o From(path_list, i + 1)
  IN  IF rel_list = <<>> THEN <<".">> ELSE Join(rel_list, Sep(plat))

(***************************************************************************)
(* SetWindowTitle._get_displayed_path                                      *)
(*   view_name, file_name: view.name(), view.file_name() (None when unset) *)
(*   folders: window.folders(), empty when the view has no window          *)
(*   display, untitled: the settings "path_display" and "untitled"         *)
(*   home, cwd: os.environ.get("HOME") and os.getcwd()                     *)
(***************************************************************************)
\* lines 174-177: the home directory shortened to "~" under full and shortest
ShortenHome(display, home, file_name) ==
  IF display \in {"full", "shortest"} /\ Truthy(home) /\ StartsWith(file_name, home)
  THEN <<"~">> \o From(file_name, Len(home) + 1)
  ELSE file_name

\* lines 180-183: rel_path, computed from full_path as line 177 left it
RelCandidate(plat, file_name, full_path, folders, cwd) ==
  LET root == IF folders # <<>> THEN folders[1] ELSE None
  IN  IF Truthy(root) /\ SplitDrive(plat, full_path) = SplitDrive(plat, root)
      THEN RelPath(plat, full_path, root, cwd)
      ELSE full_path

GetDisplayedPath(plat, view_name, file_name, folders, display, untitled, home, cwd) ==
  IF Truthy(view_name) THEN view_name
  ELSE IF ~Truthy(file_name) THEN untitled
  ELSE LET full_path == ShortenHome(display, home, file_name)
           rel_path  == RelCandidate(plat, file_name, full_path, folders, cwd)
       IN  IF display = "full" THEN full_path
           ELSE IF display = "relative" THEN rel_path
           ELSE IF Len(full_path) <= Len(rel_path) THEN full_path ELSE rel_path

(***************************************************************************)
(* Text constants of the source                                            *)
(***************************************************************************)
\* line 143
SublimeSuffix == <<" ", "-", " ", "S", "u", "b", "l", "i", "m", "e", " ", "T", "e", "x", "t">>

\* line 140: " " and U+2022, the bullet
DirtyMark == <<" ", "U+2022">>

\* lines 137 and 171
Untitled == <<"u", "n", "t", "i", "t", "l", "e", "d">>

\* line 197: "{%s}" % condition
Placeholder(condition) ==
  IF condition = "has_project"
  THEN <<"{", "h", "a", "s", "_", "p", "r", "o", "j", "e", "c", "t", "}">>
  ELSE <<"{", "i", "s", "_", "d", "i", "r", "t", "y", "}">>

\* line 161: the keyword arguments of template.format
FieldPath == <<"p", "a", "t", "h">>
FieldProject == <<"p", "r", "o", "j", "e", "c", "t">>

\* lines 86-87: __package__ and the helper's file name
PackageName == <<"S", "e", "t", "W", "i", "n", "d", "o", "w", "T", "i", "t", "l", "e">>
ScriptName == <<"f", "i", "x", "_", "w", "i", "n", "d", "o", "w", "_", "t", "i", "t", "l", "e", ".", "s", "h">>

(***************************************************************************)
(* The path specification: _get_displayed_path as a function of its        *)
(* inputs, applied once per path_display mode.                             *)
(***************************************************************************)
Modes == {"full", "relative", "shortest"}

\* the longest directory chain of the paths tried
MaxDepth == 3

Names == {<<"h">>, <<"p">>, <<"q">>}

\* an absolute path of the platform from its components
AbsOf(plat, comps) ==
  (IF plat = "windows" THEN <<"c", ":">> ELSE <<>>) \o <<Sep(plat)>> \o Join(comps, Sep(plat))

\* directory chains below the root: h, h/p, h/p/q, q, ..., no name twice
Chains ==
  {c \in UNION {[1..n -> Names] : n \in 1..MaxDepth} :
     \A i, j \in 1..Len(c) : i # j => c[i] # c[j]}

Dirs(plat) == {AbsOf(plat, c) : c \in {c \in Chains : c[1] = <<"h">> \/ Len(c) = 1}}

Files(plat) == {d \o <<Sep(plat), "a">> : d \in Dirs(plat)}

Homes(plat) == {None, AbsOf(plat, <<<<"h">>>>), AbsOf(plat, <<<<"q">>>>)}

FolderLists(plat) ==
  {<<>>} \cup {<<d>> : d \in {AbsOf(plat, <<<<"h">>>>), AbsOf(plat, <<<<"h">>, <<"p">>>>),
                              AbsOf(plat, <<<<"q">>>>)}}
         \cup (IF plat = "windows" THEN {<<<<"d", ":", "\\", "h">>>>} ELSE {})

Cwds(plat) == {AbsOf(plat, <<>>), AbsOf(plat, <<<<"h">>>>)}

PathInputs ==
  UNION {[plat : {plat}, file_name : Files(plat), home : Homes(plat),
          folders : FolderLists(plat), cwd : Cwds(plat)] : plat \in {"linux", "windows"}}

NoPathInput == [plat |-> "linux", file_name |-> None, home |-> None,
                folders |-> <<>>, cwd |-> <<"/">>]

NoPathOutput == [d \in Modes |-> None]

\* _get_displayed_path of a view with no name and a file, under one mode
Resolve(display) ==
  /\ pd_in # NoPathInput
  /\ pd_out[display] = None
  /\ pd_out' = [pd_out EXCEPT ![display] =
       GetDisplayedPath(pd_in.plat, <<>>, pd_in.file_name, pd_in.folders, display,
                        Untitled, pd_in.home, pd_in.cwd)]
  /\ UNCHANGED <<pd_in, mainVars>>

ResolveFull == Resolve("full")

ResolveRelative == Resolve("relative")

ResolveShortest == Resolve("shortest")

(***************************************************************************)
(* The host: views, windows, settings, environment                         *)
(***************************************************************************)
Platforms == {"linux", "osx", "windows"}

Views == {1, 2, 3}

\* view.window().id(); NoWindow when view.window() is None
NoWindow == 0
Windows == {1, 2}
ViewWindow(v) == IF v = 3 THEN NoWindow ELSE v

\* sublime.windows() and window.active_view()
WindowList == <<1, 2>>
ActiveView(w) == w

\* view.name(): no view of the model is named by another plugin
ViewName(v) == <<>>

\* view.file_name(): /h/a, /h/p/ba, and an unsaved buffer
ViewFileName(plat, v) ==
  CASE v = 1 -> AbsOf(plat, <<<<"h">>, <<"a">>>>)
    [] v = 2 -> AbsOf(plat, <<<<"h">>, <<"p">>, <<"b", "a">>>>)
    [] OTHER -> None

\* window.project_file_name(): window 2 has /h/k.sublime-project open
ProjectFileName(plat, w) ==
  IF w = 2
  THEN AbsOf(plat, <<<<"h">>, <<"k", ".", "s", "u", "b", "l", "i", "m", "e", "-",
                                 "p", "r", "o", "j", "e", "c", "t">>>>)
  ELSE None

\* window.folders(): window 2 has /h/p open, window 1 nothing
Folders(plat, w) == IF w = 2 THEN <<AbsOf(plat, <<<<"h">>, <<"p">>>>)>> ELSE <<>>

\* os.environ and os.getcwd(): HOME is /h where a login sets it, unset on windows
Environs(plat) ==
  {[home |-> IF plat = "windows" THEN None ELSE AbsOf(plat, <<<<"h">>>>),
    cwd |-> AbsOf(plat, <<>>)]}

\* sublime.packages_path() once the host has it: /P
PackagesPath(plat) == AbsOf(plat, <<<<"P">>>>)

\* set_window_title.sublime-settings as the user may have it; "debug" only adds
\* output of rename_window and is left out
SettingsChoices ==
  { [template |-> <<"{", "p", "a", "t", "h", "}",
                    "{", "h", "a", "s", "_", "p", "r", "o", "j", "e", "c", "t", "}">>,
     has_project_true |-> <<"[", "{", "p", "r", "o", "j", "e", "c", "t", "}", "]">>,
     has_project_false |-> <<>>,
     is_dirty_true |-> <<"*">>, is_dirty_false |-> <<>>,
     path_display |-> "shortest", untitled |-> Untitled],
    [template |-> <<"{", "p", "a", "t", "h", "}", " ", "-", " ",
                    "{", "i", "s", "_", "d", "i", "r", "t", "y", "}",
                    "E", "d", "i", "t", "o", "r">>,
     has_project_true |-> <<"[", "{", "p", "r", "o", "j", "e", "c", "t", "}", "]">>,
     has_project_false |-> <<>>,
     is_dirty_true |-> <<"*">>, is_dirty_false |-> <<>>,
     path_display |-> "full", untitled |-> Untitled],
    [template |-> <<"{", "p", "a", "t", "h", "}", "{", "f", "o", "o", "}">>,
     has_project_true |-> <<"[", "{", "p", "r", "o", "j", "e", "c", "t", "}", "]">>,
     has_project_false |-> <<>>,
     is_dirty_true |-> <<"*">>, is_dirty_false |-> <<>>,
     path_display |-> "relative", untitled |-> Untitled] }

(***************************************************************************)
(* Window (lines 12-68): the top-level windows and their text.  A title is *)
(* held by the OS as UTF-16 code units; every character of the model is in *)
(* the basic plane and is one unit.                                        *)
(***************************************************************************)
Handles == {1, 2, 3}

\* the OS window of a Sublime window
HandleOf(w) == w

\* Window.all(): EnumWindows hands every top-level window to the callback
WindowAll == Handles

BOM == "U+FEFF"

\* str.encode('utf16'): a byte order mark, then the units
EncodeUtf16(s) == <<BOM>> \o s

\* bytes.decode('utf16'): a leading byte order mark is consumed
DecodeUtf16(u) == IF u # <<>> /\ u[1] = BOM THEN Tail(u) ELSE u

\* Window.title, the getter: GetWindowTextW's units decoded
GetTitle(ts, h) == DecodeUtf16(ts[h])

\* Window.title, the setter: SetWindowTextW of the encoded text
SetTitle(ts, h, title) == [ts EXCEPT ![h] = EncodeUtf16(title)]

(***************************************************************************)
(* SetWindowTitle: the title computation                                   *)
(***************************************************************************)
\* get_project: None without a window, '' without a project file or folder
GetProject(plat, v) ==
  LET window == ViewWindow(v) IN
  IF window = NoWindow THEN None
  ELSE LET named   == ProjectFileName(plat, window)
           folders == Folders(plat, window)
           project == IF Truthy(named) THEN named
                      ELSE IF folders # <<>> THEN folders[1] ELSE <<>>
       IN  IF Truthy(project)
           THEN SplitextRoot(plat, Basename(plat, project))
           ELSE project

\* get_official_title
GetOfficialTitle(plat, v, is_dirty, project) ==
  LET view_name == IF Truthy(ViewName(v)) THEN ViewName(v)
                   ELSE IF Truthy(ViewFileName(plat, v)) THEN ViewFileName(plat, v)
                   ELSE Untitled
  IN  Basename(plat, view_name)
        \o (IF is_dirty THEN DirtyMark ELSE <<>>)
        \o (IF Truthy(project) THEN <<" ", "(">> \o project \o <<")">> ELSE <<>>)
        \o SublimeSuffix

\* _replace_condition
ReplaceCondition(template, condition, value, s) ==
  LET replacement ==
        IF condition = "has_project"
        THEN (IF value THEN s.has_project_true ELSE s.has_project_false)
        ELSE (IF value THEN s.is_dirty_true ELSE s.is_dirty_false)
  IN  Replace(template, Placeholder(condition), replacement)

Digits == {"0", "1", "2", "3", "4", "5", "6", "7", "8", "9"}

Raise(error) == [raised |-> error, text |-> <<>>]

\* what follows a piece of text that str.format has produced
Then(text, rest) ==
  IF rest.raised # "" THEN rest ELSE [raised |-> "", text |-> text \o rest.text]

RECURSIVE Format(_, _, _)
\* template.format(path=path, project=project), left to right: "{{" and "}}"
\* are braces, "{name}" is str() of the keyword argument of that name; a name
\* that is no keyword raises KeyError, an empty or numeric one IndexError (no
\* positional argument is given), a brace without its partner ValueError.
\* No template of the model has a conversion ("!r"), a format spec (":>8") or
\* an attribute or index in a field.
Format(t, path, project) ==
  IF t = <<>> THEN [raised |-> "", text |-> <<>>]
  ELSE IF t[1] = "{" /\ Len(t) >= 2 /\ t[2] = "{"
  THEN Then(<<"{">>, Format(From(t, 3), path, project))
  ELSE IF t[1] = "{"
  THEN LET close == Find(t, <<"}">>, 2)
           name  == Slice(t, 2, close - 1)
       IN  IF close = 0 \/ Contains(name, <<"{">>) THEN Raise("ValueError")
           ELSE IF name = FieldPath
           THEN Then(Str(path), Format(From(t, close + 1), path, project))
           ELSE IF name = FieldProject
           THEN Then(Str(project), Format(From(t, close + 1), path, project))
           ELSE IF \A k \in 1..Len(name) : name[k] \in Digits THEN Raise("IndexError")
           ELSE Raise("KeyError")
  ELSE IF t[1] = "}" /\ Len(t) >= 2 /\ t[2] = "}"
  THEN Then(<<"}">>, Format(From(t, 3), path, project))
  ELSE IF t[1] = "}" THEN Raise("ValueError")
  ELSE Then(<<t[1]>>, Format(Tail(t), path, project))

\* the path _get_displayed_path shows for a view
DisplayedPath(plat, v, s, env) ==
  GetDisplayedPath(plat, ViewName(v), ViewFileName(plat, v),
                   IF ViewWindow(v) = NoWindow THEN <<>> ELSE Folders(plat, ViewWindow(v)),
                   s.path_display, s.untitled, env.home, env.cwd)

\* get_new_title with a fault: str.format first, the conditions replaced in what
\* it returns
GetNewTitleFormatFirst(plat, v, is_dirty, project, s, env) ==
  LET formatted == Format(s.template, DisplayedPath(plat, v, s, env), project)
  IN  IF formatted.raised # "" THEN formatted
      ELSE [raised |-> "",
            text |-> ReplaceCondition(
                       ReplaceCondition(formatted.text, "has_project", Truthy(project), s),
                       "is_dirty", is_dirty, s)]

\* get_new_title: [raised, text]
GetNewTitle(plat, v, is_dirty, project, s, env) ==
  LET path == DisplayedPath(plat, v, s, env)
      t1   == ReplaceCondition(s.template, "has_project", Truthy(project), s)
      t2   == ReplaceCondition(t1, "is_dirty", is_dirty, s)
  IN  Format(t2, path, project)

(***************************************************************************)
(* SetWindowTitle: rename_window and run.  A handler works on the record   *)
(* st of what it may change:                                               *)
(*   was_dirty, titles, cache (window_handle_cache), matched,              *)
(*   nLogs, nRenames, last                                                 *)
(***************************************************************************)
\* the event bound of the model
MaxEvents == 3

\* what a handler has done so far: the event and what it found (the dirty flag,
\* the stored flag, the window ids a rename had found a window for), then the
\* "skipping" lines printed, the exception that ended it, its rename_window
\* calls with the window id, the script paths handed to the helper, the
\* enumerations of the top-level windows, the windows whose title held
\* official_title and those whose title changed, whether line 113 was reached,
\* and the values run computed
NewLast(kind, v, rdy, st, is_dirty) ==
  [kind |-> kind, view |-> v, ready |-> rdy, flag_before |-> st.was_dirty[v],
   dirty |-> is_dirty, known |-> st.matched,
   logged |-> 0, raised |-> "", renames |-> 0, window |-> NoWindow,
   helper |-> <<>>, enumerated |-> 0, holding |-> {}, changed |-> {},
   completed |-> FALSE,
   official |-> None, new_title |-> None, path |-> None, project |-> None]

\* lines 213-215 with a fault: the loop without the test of line 214
RenameLoopUnchecked(ts, hs, official_title, new_title) ==
  [h \in DOMAIN ts |-> IF h \in hs THEN EncodeUtf16(new_title) ELSE ts[h]]

RECURSIVE RenameLoop(_, _, _, _)
\* lines 213-215: every window of Window.all() whose title holds official_title
\* gets the new title; nothing leaves the loop early
RenameLoop(ts, hs, official_title, new_title) ==
  IF hs = {} THEN ts
  ELSE LET h == CHOOSE x \in hs : \A y \in hs : x <= y
           t == IF Contains(GetTitle(ts, h), official_title)
                THEN SetTitle(ts, h, new_title)
                ELSE ts
       IN  RenameLoop(t, hs \ {h}, official_title, new_title)

\* line 216 as a statement instead of a comment: the last window found is stored
CacheAfterLoopStored(cache, window, ts, official_title) ==
  LET found == {h \in Handles : Contains(DecodeUtf16(ts[h]), official_title)}
  IN  IF found = {} THEN cache
      ELSE [w \in DOMAIN cache \cup {window} |->
              IF w = window THEN CHOOSE h \in found : \A g \in found : g <= h
              ELSE cache[w]]

\* line 216, a comment in the source: the handle found is not stored
CacheAfterLoop(cache, window, ts, official_title) == cache

\* lines 203-209: the helper script run on script_path and the two titles
RenameByHelper(called, script) == [called EXCEPT !.last.helper = Append(@, script)]

\* the windows whose title holds official_title
Holding(ts, official_title) ==
  {h \in WindowAll : Contains(GetTitle(ts, h), official_title)}

\* the titles after a rename, with what it changed noted in the history
Retitled(called, ts) ==
  [called EXCEPT !.titles = ts,
                 !.last.changed = {h \in Handles : ts[h] # called.titles[h]}]

\* lines 213-216: the loop over Window.all()
RenameByLoop(called, window, official_title, new_title) ==
  [Retitled(called, RenameLoop(called.titles, WindowAll, official_title, new_title))
     EXCEPT !.cache = CacheAfterLoop(@, window, called.titles, official_title),
            !.matched = IF Holding(called.titles, official_title) # {}
                        THEN @ \cup {window} ELSE @,
            !.last.enumerated = @ + 1]

\* lines 211-218: the cached handle, or else the loop; window.id() of no window
\* raises AttributeError
RenameByHandle(called, window, official_title, new_title) ==
  IF window = NoWindow
  THEN [called EXCEPT !.last.raised = "AttributeError"]
  ELSE IF window \in DOMAIN called.cache
  THEN Retitled(called, SetTitle(called.titles, called.cache[window], new_title))
  ELSE RenameByLoop(called, window, official_title, new_title)

\* one more invocation of rename_window, for the history
Called(st, window) ==
  [st EXCEPT !.nRenames = @ + 1, !.last.renames = @ + 1, !.last.window = window]

\* rename_window: the helper on linux, the window handles on windows, nothing
\* on osx
RenameWindow(st, plat, script, window, official_title, new_title) ==
  IF plat = "linux" THEN RenameByHelper(Called(st, window), script)
  ELSE IF plat = "windows"
  THEN RenameByHandle([Called(st, window) EXCEPT
                         !.last.holding = Holding(st.titles, official_title)],
                      window, official_title, new_title)
  ELSE Called(st, window)

\* run, lines 104-106: not ready, one line printed and nothing else
RunSkip(st) == [st EXCEPT !.nLogs = @ + 1, !.last.logged = @ + 1]

\* line 113, reached when nothing above it raised
SetWasDirty(renamed, v, is_dirty) ==
  IF renamed.last.raised # "" THEN renamed
  ELSE [renamed EXCEPT !.was_dirty[v] = {is_dirty}, !.last.completed = TRUE]

\* lines 112-113, reached when get_new_title returned
RenameAndStore(titled, plat, script, v, is_dirty, official_title, new_title) ==
  IF new_title.raised # "" THEN [titled EXCEPT !.last.raised = new_title.raised]
  ELSE SetWasDirty(RenameWindow([titled EXCEPT !.last.new_title = new_title.text],
                                plat, script, ViewWindow(v), official_title,
                                new_title.text),
                   v, is_dirty)

\* lines 110-113, the project known
RunWithProject(st, plat, script, v, is_dirty, s, env, project) ==
  RenameAndStore([st EXCEPT !.last.project = project,
                            !.last.official = GetOfficialTitle(plat, v, is_dirty, project),
                            !.last.path = DisplayedPath(plat, v, s, env)],
                 plat, script, v, is_dirty,
                 GetOfficialTitle(plat, v, is_dirty, project),
                 GetNewTitle(plat, v, is_dirty, project, s, env))

\* run, lines 108-113
RunBody(st, plat, script, v, is_dirty, s, env) ==
  RunWithProject(st, plat, script, v, is_dirty, s, env, GetProject(plat, v))

\* run
Run(st, plat, rdy, script, v, is_dirty, s, env) ==
  IF ~rdy THEN RunSkip(st) ELSE RunBody(st, plat, script, v, is_dirty, s, env)

\* line 97 with a fault: the stored flag read with False as its default
FlagDiffersDefaultFalse(flag, is_dirty) ==
  (IF flag = {} THEN {FALSE} ELSE flag) # {is_dirty}

\* on_modified_async, line 97: the stored flag against view.is_dirty()
FlagDiffers(flag, is_dirty) == flag # {is_dirty}

(***************************************************************************)
(* The listener as a state machine                                         *)
(***************************************************************************)
NoLast ==
  [kind |-> "none", view |-> 0, ready |-> FALSE, flag_before |-> {},
   dirty |-> FALSE, known |-> {},
   logged |-> 0, raised |-> "", renames |-> 0, window |-> NoWindow,
   helper |-> <<>>, enumerated |-> 0, holding |-> {}, changed |-> {},
   completed |-> FALSE,
   official |-> None, new_title |-> None, path |-> None, project |-> None]

\* the title the host itself gives a window showing view v: the path with the
\* home directory shortened, where get_official_title has the base name
HostTitle(plat, env, v, is_dirty) ==
  LET shown == ShortenHome("full", env.home, ViewFileName(plat, v))
  IN  Slice(shown, 1, Len(shown) - Len(Basename(plat, shown)))
        \o GetOfficialTitle(plat, v, is_dirty, GetProject(plat, v))

\* a third top-level window: another editor window, showing /ba, no project
OtherWindowTitle(plat) == AbsOf(plat, <<<<"b", "a">>>>) \o SublimeSuffix

\* lines 72-77: the class attributes and __init__, the startup task scheduled
InitListener ==
  /\ pc = "scheduled"
  /\ window_index = 1
  /\ packages_path = <<>>
  /\ script_path = None
  /\ ready = FALSE
  /\ window_handle_cache = <<>>

InitHistory ==
  /\ matched = {}
  /\ nEvents = 0
  /\ nLogs = 0
  /\ nRenames = 0
  /\ last = NoLast

Init ==
  /\ PLATFORM \in Platforms
  /\ settings \in SettingsChoices
  /\ environ \in Environs(PLATFORM)
  /\ InitListener
  /\ dirty = [v \in Views |-> FALSE]
  /\ was_dirty = [v \in Views |-> {}]
  /\ titles = [h \in Handles |->
                 IF h \in {HandleOf(w) : w \in Windows}
                 THEN HostTitle(PLATFORM, environ, ActiveView(h), FALSE)
                 ELSE OtherWindowTitle(PLATFORM)]
  /\ InitHistory
  /\ pd_in = NoPathInput
  /\ pd_out = NoPathOutput

State == [was_dirty |-> was_dirty, titles |-> titles, cache |-> window_handle_cache,
          matched |-> matched, nLogs |-> nLogs, nRenames |-> nRenames, last |-> last]

\* the variables a handler leaves as the record st has them
Becomes(st) ==
  /\ was_dirty' = st.was_dirty
  /\ titles' = st.titles
  /\ window_handle_cache' = st.cache
  /\ matched' = st.matched
  /\ nLogs' = st.nLogs
  /\ nRenames' = st.nRenames
  /\ last' = st.last

Begun(st, kind, v, is_dirty) == [st EXCEPT !.last = NewLast(kind, v, ready, st, is_dirty)]

Started(kind, v, is_dirty) == Begun(State, kind, v, is_dirty)

RunView(kind, v, is_dirty) ==
  Run(Started(kind, v, is_dirty), PLATFORM, ready, script_path, v, is_dirty,
      settings, environ)

Dispatched ==
  /\ nEvents < MaxEvents
  /\ nEvents' = nEvents + 1
  /\ UNCHANGED <<PLATFORM, settings, environ, pc, window_index, packages_path,
                 script_path, ready, pathVars>>

\* on_activated_async
OnActivatedAsync(v) ==
  /\ Dispatched
  /\ UNCHANGED dirty
  /\ Becomes(RunView("activate", v, dirty[v]))

\* on_modified_async: the buffer has changed, and is dirty or back at what was saved
OnModifiedAsync(v, is_dirty) ==
  /\ Dispatched
  /\ dirty' = [dirty EXCEPT ![v] = is_dirty]
  /\ Becomes(IF FlagDiffers(was_dirty[v], is_dirty)
             THEN RunView("modify", v, is_dirty)
             ELSE Started("modify", v, is_dirty))

\* on_post_save_async: the view has a file and has been written to it
OnPostSaveAsync(v) ==
  /\ Truthy(ViewFileName(PLATFORM, v))
  /\ Dispatched
  /\ dirty' = [dirty EXCEPT ![v] = FALSE]
  /\ Becomes(RunView("save", v, FALSE))

\* on_sublime_started, line 80 and the loop of lines 81-83: one call of
\* sublime.packages_path(), which is empty until the host has its paths
StartedPoll ==
  /\ pc \in {"scheduled", "polling"}
  /\ packages_path = <<>>
  /\ \E found \in {<<>>, PackagesPath(PLATFORM)} : packages_path' = found
  /\ pc' = "polling"
  /\ UNCHANGED <<PLATFORM, settings, environ, window_index, script_path, ready,
                 window_handle_cache, dirty, was_dirty, titles, matched, nEvents,
                 nLogs, nRenames, last, pathVars>>

\* lines 85-87
JoinedScriptPath(plat, found) ==
  IF plat = "linux" THEN Join(<<found, PackageName, ScriptName>>, "/") ELSE None

\* lines 80-87 with a fault: the task goes on whatever packages_path() returned
StartedSetScriptPathUnpolled ==
  /\ pc \in {"scheduled", "polling"}
  /\ script_path' = JoinedScriptPath(PLATFORM, packages_path)
  /\ pc' = "set_ready"
  /\ UNCHANGED <<PLATFORM, settings, environ, window_index, packages_path, ready,
                 window_handle_cache, dirty, was_dirty, titles, matched, nEvents,
                 nLogs, nRenames, last, pathVars>>

\* lines 85-88 with a fault: line 88 above line 85, ready set before script_path
StartedSetScriptPathReadyFirst ==
  /\ pc = "polling"
  /\ packages_path # <<>>
  /\ IF ~ready
     THEN ready' = TRUE /\ UNCHANGED <<script_path, pc>>
     ELSE script_path' = JoinedScriptPath(PLATFORM, packages_path)
          /\ pc' = "set_ready" /\ UNCHANGED ready
  /\ UNCHANGED <<PLATFORM, settings, environ, window_index, packages_path,
                 window_handle_cache, dirty, was_dirty, titles, matched, nEvents,
                 nLogs, nRenames, last, pathVars>>

StartedSetScriptPath ==
  /\ pc = "polling"
  /\ packages_path # <<>>
  /\ script_path' = JoinedScriptPath(PLATFORM, packages_path)
  /\ pc' = "set_ready"
  /\ UNCHANGED <<PLATFORM, settings, environ, window_index, packages_path, ready,
                 window_handle_cache, dirty, was_dirty, titles, matched, nEvents,
                 nLogs, nRenames, last, pathVars>>

\* line 88
StartedSetReady ==
  /\ pc = "set_ready"
  /\ ready' = TRUE
  /\ pc' = "run_windows"
  /\ UNCHANGED <<PLATFORM, settings, environ, window_index, packages_path,
                 script_path, window_handle_cache, dirty, was_dirty, titles, matched,
                 nEvents, nLogs, nRenames, last, pathVars>>

\* lines 90-91: run on the active view of the next window of sublime.windows()
StartedRunWindow ==
  /\ pc = "run_windows"
  /\ window_index <= Len(WindowList)
  /\ Becomes(RunView("startup", ActiveView(WindowList[window_index]),
                     dirty[ActiveView(WindowList[window_index])]))
  /\ window_index' = window_index + 1
  /\ UNCHANGED <<PLATFORM, settings, environ, pc, packages_path, script_path, ready,
                 dirty, nEvents, pathVars>>

\* the loop of line 90 is over: the task ends
StartedReturn ==
  /\ pc = "run_windows"
  /\ window_index > Len(WindowList)
  /\ pc' = "done"
  /\ UNCHANGED <<PLATFORM, settings, environ, window_index, packages_path,
                 script_path, ready, window_handle_cache, dirty, was_dirty, titles,
                 matched, nEvents, nLogs, nRenames, last, pathVars>>

\* the host puts its own title back on a window (a tab change, an edit); the
\* titles are read on windows alone
HostRetitle(w) ==
  /\ PLATFORM = "windows"
  /\ titles' = [titles EXCEPT ![HandleOf(w)] =
                  HostTitle(PLATFORM, environ, ActiveView(w), dirty[ActiveView(w)])]
  /\ titles' # titles
  /\ UNCHANGED <<PLATFORM, settings, environ, pc, window_index, packages_path,
                 script_path, ready, window_handle_cache, dirty, was_dirty, matched,
                 nEvents, nLogs, nRenames, last, pathVars>>

Next ==
  \/ \E v \in Views : OnActivatedAsync(v)
  \/ \E v \in Views : \E is_dirty \in BOOLEAN : OnModifiedAsync(v, is_dirty)
  \/ \E v \in Views : OnPostSaveAsync(v)
  \/ StartedPoll
  \/ StartedSetScriptPath
  \/ StartedSetReady
  \/ StartedRunWindow
  \/ StartedReturn
  \/ \E w \in Windows : HostRetitle(w)

Spec == Init /\ [][Next]_vars

(***************************************************************************)
(* The path specification                                                  *)
(***************************************************************************)
InitPath ==
  /\ pd_in \in PathInputs
  /\ pd_out = NoPathOutput
  /\ PLATFORM = pd_in.plat
  /\ settings \in {s \in SettingsChoices : s.path_display = "shortest"}
  /\ environ = [home |-> pd_in.home, cwd |-> pd_in.cwd]
  /\ InitListener
  /\ dirty = [v \in Views |-> FALSE]
  /\ was_dirty = [v \in Views |-> {}]
  /\ titles = [h \in Handles |-> <<>>]
  /\ InitHistory

NextPath == ResolveFull \/ ResolveRelative \/ ResolveShortest

SpecPath == InitPath /\ [][NextPath]_vars

(***************************************************************************)
(* The claims                                                              *)
(***************************************************************************)
EventKinds == {"activate", "modify", "save"}

\* the last handler called run
CalledRun ==
  \/ last.kind \in {"activate", "save", "startup"}
  \/ last.kind = "modify" /\ last.flag_before # {last.dirty}

UnknownPlaceholder == <<"{", "f", "o", "o", "}">>

ScenarioTemplate ==
  <<"{", "p", "a", "t", "h", "}", "{", "h", "a", "s", "_", "p", "r", "o", "j", "e", "c", "t", "}">>

\* C1: while ready is false no rename_window call has been made and every
\* event dispatched so far has printed exactly one "skipping" line; an event
\* whose handler found ready false printed one line and renamed nothing,
\* a modify event with either dirty flag included.
C1_NotReadySkipsEveryEvent ==
  /\ ~ready => nRenames = 0 /\ nLogs = nEvents
  /\ last.kind \in EventKinds /\ ~last.ready =>
       last.logged = 1 /\ last.renames = 0 /\ last.helper = <<>> /\ last.changed = {}

\* C1, its case: two events before ready, the last a modify event of a view that
\* is not dirty
C1_Witness ==
  /\ ~ready
  /\ nEvents >= 2
  /\ last.kind = "modify" /\ ~last.dirty /\ last.logged = 1

\* C2: the listener starts not ready; ready is true only once the startup task
\* has seen a packages path that is not empty and has passed line 88; ready
\* becomes true in the startup task's step at line 88 alone; and no step makes
\* ready false again.
C2_ReadyOneWay ==
  /\ ~ready
  /\ [](ready => packages_path # <<>> /\ pc \in {"run_windows", "done"})
  /\ [][~ready /\ ready' => pc = "set_ready" /\ pc' = "run_windows"]_vars
  /\ [][ready => ready']_vars

\* C2, its case: ready, the startup task over, and an event handled since
C2_Witness ==
  /\ ready /\ pc = "done"
  /\ last.kind \in EventKinds /\ last.ready /\ last.completed

\* C3: with a template that holds the placeholder {foo}, a handler that calls
\* run when ready raises nothing, leaves {foo} in the new title and calls
\* rename_window with it.
C3_UnknownPlaceholderKept ==
  last.ready /\ CalledRun /\ Contains(settings.template, UnknownPlaceholder) =>
    /\ last.raised \notin {"KeyError", "ValueError", "IndexError"}
    /\ last.renames = 1
    /\ Contains(last.new_title, UnknownPlaceholder)

\* C4: what 'shortest' returns is no longer than what 'full' returns and no
\* longer than what 'relative' returns for the same inputs, and is the 'full'
\* candidate when the two are of one length.
C4_ShortestNoLongerThanBoth ==
  (\A d \in Modes : pd_out[d] # None) =>
    /\ Len(pd_out["shortest"]) <= Len(pd_out["full"])
    /\ Len(pd_out["shortest"]) <= Len(pd_out["relative"])
    /\ Len(pd_out["full"]) = Len(pd_out["relative"]) => pd_out["shortest"] = pd_out["full"]

\* C5 as claimed: on windows, once a rename for a window id has found a window
\* the id is in the cache, and a later rename for that id does not enumerate
\* the top-level windows.
C5_HandleCachedAfterMatch ==
  PLATFORM = "windows" =>
    /\ \A w \in matched : w \in DOMAIN window_handle_cache
    /\ last.renames = 1 /\ last.window \in last.known => last.enumerated = 0

\* C5 as amended: on windows the cache is never written, it stays empty, and
\* every rename for a window id enumerates the top-level windows, also after
\* an earlier rename for that id found a window.
C5_CacheNeverFilled ==
  /\ DOMAIN window_handle_cache = {}
  /\ PLATFORM = "windows" /\ last.renames = 1 /\ last.window # NoWindow =>
       last.enumerated = 1

\* C5, its case: a rename for a window id that an earlier rename had found a
\* window for, which enumerates again and finds one again
C5_Witness ==
  /\ PLATFORM = "windows"
  /\ last.renames = 1 /\ last.window \in last.known
  /\ last.enumerated = 1 /\ last.holding # {}

C7_AtMostOneRenamed ==
  PLATFORM = "windows" /\ last.renames = 1 => Cardinality(last.changed) <= 1

\* C8: with the template "{path}{has_project}", has_project_true "[{project}]"
\* and has_project_false "", the new title is the displayed path followed by
\* the project in brackets when there is a project (the {project} inside the
\* conditional text is filled), and is the displayed path alone when there is
\* none.
C8_ConditionsBeforeFields ==
  last.ready /\ CalledRun /\ settings.template = ScenarioTemplate =>
    /\ last.raised \notin {"KeyError", "ValueError", "IndexError"}
    /\ last.path = DisplayedPath(PLATFORM, last.view, settings, environ)
    /\ Truthy(last.project) => last.new_title = last.path \o <<"[">> \o last.project \o <<"]">>
    /\ ~Truthy(last.project) => last.new_title = last.path

\* C8, its cases: a view of a window with a project renamed
C8_Witness ==
  /\ last.ready /\ CalledRun /\ settings.template = ScenarioTemplate
  /\ last.project = <<"k">>
  /\ last.renames = 1 /\ last.completed
  /\ last.new_title = last.path \o <<"[", "k", "]">>

\* C9: once ready, after an activate, modify or post-save handler the stored
\* flag of the view is its dirty flag, and a modify event calls rename_window
\* exactly when the stored flag differed from the dirty flag.
C9_FlagFollowsDirty ==
  last.kind \in EventKinds /\ last.ready =>
    /\ was_dirty[last.view] = {dirty[last.view]}
    /\ last.kind = "modify" => (last.renames = 1 <=> last.flag_before # {last.dirty})

\* C10: on linux ready implies that script_path is set, the helper is never
\* run on an unset script_path, and a handler runs the helper at most once.
C10_HelperHasScriptPath ==
  PLATFORM = "linux" =>
    /\ ready => script_path # None
    /\ \A i \in 1..Len(last.helper) : last.helper[i] # None
    /\ Len(last.helper) <= 1
    /\ Len(last.helper) = last.renames

\* C10, its case: an event handled on linux while the startup task is still
\* between line 88 and its end, the helper run once
C10_Witness ==
  /\ PLATFORM = "linux"
  /\ pc = "run_windows"
  /\ last.kind \in EventKinds /\ Len(last.helper) = 1
  /\ last.helper[1] = JoinedScriptPath("linux", PackagesPath("linux"))

====
